---- MODULE Spec2Model ----
(***************************************************************************)
(* A11yServer (src/src/index.js): the CallTool request router and the two  *)
(* tool handlers auditWebpage and getSummary.  A JavaScript object is a    *)
(* TLA+ record whose DOMAIN is the set of its defined properties: reading  *)
(* a property that is not in the DOMAIN yields undefined.  Every await of  *)
(* a handler is a separate step, so that several calls interleave exactly  *)
(* where the event loop lets them.  puppeteer, the axe engine and the      *)
(* clock are the environment: what they return is chosen with \E.          *)
(***************************************************************************)
EXTENDS Integers, Sequences, FiniteSets, TLC

\* ------------------------------------------------------------- bounds
NumCalls == 2             \* tool calls delivered to the server
MaxViolations == 6        \* raw violations of a page summarised by get_summary
MaxMixed == 3             \* the same, on a page where both a missing impact and an
                          \* impact outside the four occur
MaxAuditViolations == 2   \* raw violations of a page audited by audit_webpage
MaxNodes == 2             \* affected nodes of one raw violation

\* ------------------------------------------------- program constants
NavigationTimeout == 30000   \* page.goto(..., { timeout: 30000 })
TopIssuesCount == 5          \* .slice(0, 5)

Calls == 1..NumCalls

\* ------------------------------------------------------ JS primitives
\* obj[key] !== undefined
Has(obj, key) == key \in DOMAIN obj

\* The properties `keys` of obj that are defined.  An object literal
\* { k: obj.k, ... } carries k: undefined for the others, and JSON.stringify
\* leaves a property whose value is undefined out of its output.
Pick(obj, keys) == [k \in keys \cap DOMAIN obj |-> obj[k]]

\* array.slice(0, n)
Slice(s, n) == SubSeq(s, 1, IF Len(s) < n THEN Len(s) ELSE n)

\* ------------------------------------------------------------- errors
McpError(code, message) == [class |-> "McpError", code |-> code, message |-> message]

\* Reading a property of undefined: the TypeError of `args.url` when the
\* request carries no arguments object.
TypeError(message) == [class |-> "TypeError", message |-> message]

\* --------------------------------------------------- the tool results
\* { content: [{ type: 'text', text }] }
TextContent(text) == <<[type |-> "text", text |-> text]>>

\* `Error auditing webpage: ${error.message}` and `Error getting summary: ...`:
\* the template string is the pair of its fixed prefix and the cause.
ErrorText(prefix, error) == [prefix |-> prefix, cause |-> error.message]

\* JSON.stringify(value, null, 2): the text of an object, which holds the
\* object's defined properties and nothing else.
Stringify(value) == [json |-> value]

\* ---------------------------------------------- auditWebpage, pure part
BadAxeOptionsAlwaysAll(args) == <<>>

\* const axeOptions = {}; if (args.tags && args.tags.length > 0) axeOptions.runOnly = ...
AxeOptions(args) ==
    IF Has(args, "tags") /\ Len(args.tags) > 0
    THEN [runOnly |-> [type |-> "tag", values |-> args.tags]]
    ELSE <<>>

BadFormattedNodeAlwaysHtml(args, node) ==
    Pick(node, {"impact", "target", "failureSummary", "html"})

\* violation.nodes.map(node => { ... })
FormattedNode(args, node) ==
    IF Has(args, "includeHtml") /\ args.includeHtml
    THEN Pick(node, {"impact", "target", "failureSummary", "html"})
    ELSE Pick(node, {"impact", "target", "failureSummary"})

BadFormattedViolationDropsLastNode(args, violation) ==
    Pick(violation, {"id", "impact", "description", "helpUrl"})
    @@ [nodes |-> [i \in 1..(IF Len(violation.nodes) > 1 THEN Len(violation.nodes) - 1
                                                          ELSE Len(violation.nodes))
                       |-> FormattedNode(args, violation.nodes[i])]]

\* results.violations.map(violation => { ... })
FormattedViolation(args, violation) ==
    Pick(violation, {"id", "impact", "description", "helpUrl"})
    @@ [nodes |-> [i \in 1..Len(violation.nodes) |-> FormattedNode(args, violation.nodes[i])]]

\* const formattedResults = { url, timestamp, violations, passes, incomplete, inapplicable }
FormattedResults(args, results, timestamp) ==
    [url          |-> args.url,
     timestamp    |-> timestamp,
     violations   |-> [i \in 1..Len(results.violations) |->
                           FormattedViolation(args, results.violations[i])],
     passes       |-> Len(results.passes),
     incomplete   |-> Len(results.incomplete),
     inapplicable |-> Len(results.inapplicable)]

\* ------------------------------------------------ getSummary, pure part
\* const impactOrder = { critical: 0, serious: 1, moderate: 2, minor: 3 }
impactOrder == [critical |-> 0, serious |-> 1, moderate |-> 2, minor |-> 3]

\* impactOrder[v.impact] is a number
Ranked(v) == Has(v, "impact") /\ v.impact \in DOMAIN impactOrder

\* (a, b) => impactOrder[a.impact] - impactOrder[b.impact], as Array.prototype.sort
\* reads it: undefined - n and n - undefined are NaN, and a comparator result of
\* NaN counts as +0 (ECMA-262, SortCompare).
Compare(a, b) ==
    IF Ranked(a) /\ Ranked(b)
    THEN impactOrder[a.impact] - impactOrder[b.impact]
    ELSE 0

\* Array.prototype.sort of the runtime the script names (#!/usr/bin/env node: V8),
\* for an array shorter than 64 elements: the leading run is found and, when it
\* descends strictly, reversed; the rest is inserted by binary search.  Stable
\* for a consistent comparator.  With violations that have no rank the
\* comparator is not consistent, and ECMA-262 leaves the order to the engine.
RECURSIVE RunLength(_, _, _)
RunLength(s, idx, descending) ==
    IF idx > Len(s) THEN idx - 1
    ELSE LET order == Compare(s[idx], s[idx - 1])
         IN  IF (descending /\ order >= 0) \/ (~descending /\ order < 0)
             THEN idx - 1
             ELSE RunLength(s, idx + 1, descending)

ReverseRange(s, n) == [i \in 1..Len(s) |-> IF i <= n THEN s[n + 1 - i] ELSE s[i]]

RECURSIVE BinarySearch(_, _, _, _)
BinarySearch(s, pivot, left, right) ==
    IF left >= right THEN left
    ELSE LET mid == left + ((right - left) \div 2)
         IN  IF Compare(pivot, s[mid]) < 0
             THEN BinarySearch(s, pivot, left, mid)
             ELSE BinarySearch(s, pivot, mid + 1, right)

RECURSIVE BinaryInsertionSort(_, _)
BinaryInsertionSort(s, start) ==
    IF start > Len(s) THEN s
    ELSE LET pivot == s[start]
             left  == BinarySearch(s, pivot, 1, start)
             moved == [i \in 1..Len(s) |->
                          IF i < left \/ i > start THEN s[i]
                          ELSE IF i = left THEN pivot
                          ELSE s[i - 1]]
         IN  BinaryInsertionSort(moved, start + 1)

Sort(s) ==
    IF Len(s) < 2 THEN s
    ELSE LET descending == Compare(s[2], s[1]) < 0
             run        == RunLength(s, 3, descending)
             made       == IF descending THEN ReverseRange(s, run) ELSE s
         IN  BinaryInsertionSort(made, run + 1)

\* results.violations.filter(v => v.impact === impact).length
CountImpact(violations, impact) ==
    Cardinality({i \in 1..Len(violations) :
                    Has(violations[i], "impact") /\ violations[i].impact = impact})

BadIssuesBySeverityMinorCatchesAll(violations) ==
    [critical |-> CountImpact(violations, "critical"),
     serious  |-> CountImpact(violations, "serious"),
     moderate |-> CountImpact(violations, "moderate"),
     minor    |-> Len(violations) - CountImpact(violations, "critical")
                  - CountImpact(violations, "serious") - CountImpact(violations, "moderate")]

\* issuesBySeverity: { critical: ..., serious: ..., moderate: ..., minor: ... }
IssuesBySeverity(violations) ==
    [critical |-> CountImpact(violations, "critical"),
     serious  |-> CountImpact(violations, "serious"),
     moderate |-> CountImpact(violations, "moderate"),
     minor    |-> CountImpact(violations, "minor")]

\* topIssues: results.violations.sort(...).slice(0, 5).map(violation => ({ ... }))
TopIssues(violations) ==
    LET top == Slice(Sort(violations), TopIssuesCount)
    IN  [i \in 1..Len(top) |-> Pick(top[i], {"id", "impact", "description", "helpUrl"})]

\* const summary = { url, timestamp, totalIssues, issuesBySeverity, topIssues, ... }
Summary(args, results, timestamp) ==
    [url              |-> args.url,
     timestamp        |-> timestamp,
     totalIssues      |-> Len(results.violations),
     issuesBySeverity |-> IssuesBySeverity(results.violations),
     topIssues        |-> TopIssues(results.violations),
     passedTests      |-> Len(results.passes),
     incompleteTests  |-> Len(results.incomplete)]

\* --------------------------------------------------- the environment
\* What a client may send in params of a tools/call request.  `arguments` is
\* optional in the protocol's CallToolRequest.
ToolNames == {"audit_webpage", "get_summary", "list_pages"}

GoodUrl == "https://example.com/"
UnreachableUrl == "https://unreachable.invalid/"
MalformedUrl == "example dot com"

\* URLs page.goto can load; it rejects for the others.
Navigable(url) == url = GoodUrl

ParamsOf(names, arguments, withBare) ==
    {[name |-> n, arguments |-> a] : n \in names, a \in arguments}
    \cup (IF withBare THEN {[name |-> n] : n \in names} ELSE {})

\* Arguments of the calls that run concurrently.
Arguments ==
    {<<>>,
     [url |-> GoodUrl, includeHtml |-> TRUE, tags |-> <<"wcag2aa">>]}

\* Arguments of the single call whose report or summary is examined.
ReportArguments ==
    Arguments \cup
    {[url |-> GoodUrl],
     [url |-> ""],
     [includeHtml |-> TRUE],
     [url |-> MalformedUrl],
     [url |-> UnreachableUrl],
     [url |-> GoodUrl, includeHtml |-> FALSE, tags |-> <<>>]}

\* Arguments of a get_summary call that follow its schema: url alone.
SummaryArguments ==
    {<<>>, [url |-> ""], [url |-> GoodUrl], [url |-> MalformedUrl], [url |-> UnreachableUrl]}

\* new Date().toISOString()
Timestamps == {"2024-05-01T10:00:00.000Z", "2024-05-01T10:00:31.000Z"}
FirstTimestamp == {"2024-05-01T10:00:00.000Z"}

\* What the awaited call of a step rejects with.
Error(message) == [class |-> "Error", message |-> message]

Rejections(step, url) ==
    CASE step = "launch"      -> {Error("Failed to launch the browser process!")}
      [] step = "newPage"     -> {Error("Protocol error (Target.createTarget): Target closed")}
      [] step = "setViewport" -> {Error("Protocol error (Emulation.setDeviceMetricsOverride): Target closed")}
      [] step = "goto"        ->
            IF Navigable(url)
            THEN {Error("Navigation timeout of " \o ToString(NavigationTimeout) \o " ms exceeded")}
            ELSE IF url = UnreachableUrl
            THEN {Error("net::ERR_NAME_NOT_RESOLVED at " \o url)}
            ELSE {Error("Protocol error (Page.navigate): Cannot navigate to invalid URL")}
      [] step = "analyze"     -> {Error("Execution context was destroyed")}
      [] step = "close"       -> {Error("Protocol error (Browser.close): Target closed")}
      [] OTHER                -> {}

\* ------------------------------------------- the rule engine's results
RuleIds == <<"image-alt", "label", "color-contrast", "link-name",
             "html-has-lang", "region", "list", "bypass">>

RecognizedImpacts == {"critical", "serious", "moderate", "minor"}
NoImpact == "(no impact)"      \* the violation has no impact property
OtherImpact == "cosmetic"      \* an impact that is none of the four

NodeKinds == {"markup", "bare"}

\* The i-th affected node of a violation; only a "markup" node has html.
RawNode(i, kind) ==
    [impact         |-> IF kind = "markup" THEN "serious" ELSE "minor",
     target         |-> <<"#main", "li:nth-child(" \o ToString(i) \o ")">>,
     failureSummary |-> "Fix any of the following: ..."]
    @@ (IF kind = "markup" THEN [html |-> "<img src=\"a.png\">"] ELSE <<>>)

\* The i-th violation the engine reports: one per rule, in the engine's order.
RawViolation(i, impact, kinds) ==
    [id          |-> RuleIds[i],
     description |-> "Ensures " \o RuleIds[i],
     helpUrl     |-> "https://dequeuniversity.com/rules/axe/" \o RuleIds[i],
     nodes       |-> [k \in 1..Len(kinds) |-> RawNode(k, kinds[k])]]
    @@ (IF impact = NoImpact THEN <<>> ELSE [impact |-> impact])

SeqUpTo(S, n) == UNION {[1..k -> S] : k \in 0..n}

\* Every violations list of at most n violations with impacts from `impacts`
\* and node lists of at most m nodes.
ViolationLists(impacts, n, m) ==
    {[i \in 1..Len(l) |-> RawViolation(i, l[i][1], l[i][2])] :
        l \in SeqUpTo(impacts \X SeqUpTo(NodeKinds, m), n)}

Checks(passes, incomplete, inapplicable) ==
    [passes       |-> [i \in 1..passes |-> "pass"],
     incomplete   |-> [i \in 1..incomplete |-> "incomplete"],
     inapplicable |-> [i \in 1..inapplicable |-> "inapplicable"]]

RawResults(violationLists, checks) ==
    {[violations |-> v] @@ c : v \in violationLists, c \in checks}

\* Results of the pages the concurrent calls load.
PageResults ==
    {[violations |-> <<>>] @@ Checks(0, 0, 0),
     [violations |-> <<RawViolation(1, "minor", <<"bare">>),
                       RawViolation(2, "critical", <<"markup">>)>>] @@ Checks(2, 1, 3)}

\* Results of the page an examined audit_webpage call loads.
AuditResults ==
    PageResults
    \cup RawResults(ViolationLists({"serious", NoImpact}, MaxAuditViolations, MaxNodes),
                    {Checks(2, 1, 3)})

\* Results of the page an examined get_summary call loads.
SummaryResults ==
    RawResults(ViolationLists(RecognizedImpacts \cup {NoImpact}, MaxViolations, 0)
               \cup ViolationLists(RecognizedImpacts \cup {NoImpact, OtherImpact}, MaxMixed, 0),
               {Checks(2, 1, 3)})

\* --------------------------------------------------------------- state
VARIABLES
    request,     \* request[c]: params of call c, <<>> before it is delivered
    handler,     \* handler[c]: the handler the router invoked for c
    pc,          \* pc[c]: "idle", the await the handler is suspended at, or "done"
    browser,     \* browser[c]: the handler's `browser`, an index of sessions (0: none)
    axeOptions,  \* axeOptions[c]: the options the engine was run with
    results,     \* results[c]: the handler's `results`
    outcome,     \* outcome[c]: pending, the value returned, or the error thrown
    awaited,     \* awaited[c]: the external calls the handler made, in order
    rejection,   \* rejection[c]: the error the catch block caught, <<>> if none
    sessions     \* the browser sessions launched so far: who launched and used
                 \* each, whether it is open, what the engine found on its page

vars == <<request, handler, pc, browser, axeOptions, results, outcome, awaited,
          rejection, sessions>>

Pending == [kind |-> "pending"]
Thrown(error) == [kind |-> "fault", error |-> error]
Returned(value) == [kind |-> "result", value |-> value]

Init ==
    /\ request = [c \in Calls |-> <<>>]
    /\ handler = [c \in Calls |-> "none"]
    /\ pc = [c \in Calls |-> "idle"]
    /\ browser = [c \in Calls |-> 0]
    /\ axeOptions = [c \in Calls |-> <<>>]
    /\ results = [c \in Calls |-> <<>>]
    /\ outcome = [c \in Calls |-> Pending]
    /\ awaited = [c \in Calls |-> <<>>]
    /\ rejection = [c \in Calls |-> <<>>]
    /\ sessions = <<>>

\* ----------------------------------------------------- handler steps
\* !args.url
UrlMissing(args) == IF Has(args, "url") THEN args.url = "" ELSE TRUE

Throw(c, error) ==
    /\ pc' = [pc EXCEPT ![c] = "done"]
    /\ outcome' = [outcome EXCEPT ![c] = Thrown(error)]

Return(c, value) ==
    /\ pc' = [pc EXCEPT ![c] = "done"]
    /\ outcome' = [outcome EXCEPT ![c] = Returned(value)]

\* The handler calls external operation `op` and suspends at `step`.
Await(c, step, op) ==
    /\ pc' = [pc EXCEPT ![c] = step]
    /\ awaited' = [awaited EXCEPT ![c] = Append(@, op)]

\* The handler acts on its `browser` (or on the page of it).
UseBrowser(c) ==
    sessions' = [sessions EXCEPT ![browser[c]].usedBy = @ \cup {c}]

\* The synchronous head of auditWebpage and of getSummary, up to the first
\* await: if (!args.url) throw new McpError(InvalidParams, ...); then, inside
\* try, puppeteer.launch(...) is called.
Enter(c, h, params) ==
    /\ handler' = [handler EXCEPT ![c] = h]
    /\ \/ /\ ~Has(params, "arguments")
          /\ Throw(c, TypeError("Cannot read properties of undefined (reading 'url')"))
          /\ UNCHANGED awaited
       \/ /\ Has(params, "arguments")
          /\ UrlMissing(params.arguments)
          /\ Throw(c, McpError("InvalidParams", "URL is required"))
          /\ UNCHANGED awaited
       \/ /\ Has(params, "arguments")
          /\ ~UrlMissing(params.arguments)
          /\ Await(c, "launch", "puppeteer.launch")
          /\ UNCHANGED outcome
    /\ UNCHANGED <<browser, axeOptions, results, rejection, sessions>>

BadLaunchedReusesOpenSession(c, h) ==
    /\ handler[c] = h /\ pc[c] = "launch"
    /\ IF \E s \in 1..Len(sessions) : sessions[s].open
       THEN LET s == CHOOSE s \in 1..Len(sessions) : sessions[s].open
            IN  /\ browser' = [browser EXCEPT ![c] = s]
                /\ sessions' = [sessions EXCEPT ![s].usedBy = @ \cup {c}]
       ELSE /\ sessions' = Append(sessions, [launchedBy |-> c, open |-> TRUE, usedBy |-> {c}, analysis |-> <<>>])
            /\ browser' = [browser EXCEPT ![c] = Len(sessions) + 1]
    /\ Await(c, "newPage", "browser.newPage")
    /\ UNCHANGED <<request, handler, axeOptions, results, outcome, rejection>>

\* const browser = await puppeteer.launch(...) resolves with a new session;
\* browser.newPage() is called.
Launched(c, h) ==
    /\ handler[c] = h /\ pc[c] = "launch"
    /\ sessions' = Append(sessions, [launchedBy |-> c, open |-> TRUE, usedBy |-> {c}, analysis |-> <<>>])
    /\ browser' = [browser EXCEPT ![c] = Len(sessions) + 1]
    /\ Await(c, "newPage", "browser.newPage")
    /\ UNCHANGED <<request, handler, axeOptions, results, outcome, rejection>>

\* const page = await browser.newPage() resolves; page.setViewport(...) is called.
PageCreated(c, h) ==
    /\ handler[c] = h /\ pc[c] = "newPage"
    /\ UseBrowser(c)
    /\ Await(c, "setViewport", "page.setViewport")
    /\ UNCHANGED <<request, handler, browser, axeOptions, results, outcome, rejection>>

\* await page.setViewport(...) resolves; page.goto(args.url, ...) is called.
ViewportSet(c, h) ==
    /\ handler[c] = h /\ pc[c] = "setViewport"
    /\ UseBrowser(c)
    /\ Await(c, "goto", "page.goto")
    /\ UNCHANGED <<request, handler, browser, axeOptions, results, outcome, rejection>>

\* await page.goto(...) resolves; the engine is started with `options`.
Navigated(c, h, options) ==
    /\ handler[c] = h /\ pc[c] = "goto"
    /\ Navigable(request[c].arguments.url)
    /\ UseBrowser(c)
    /\ axeOptions' = [axeOptions EXCEPT ![c] = options]
    /\ Await(c, "analyze", "AxePuppeteer.analyze")
    /\ UNCHANGED <<request, handler, browser, results, outcome, rejection>>

\* const results = await ... .analyze() resolves with r; browser.close() is called.
Analyzed(c, h, r) ==
    /\ handler[c] = h /\ pc[c] = "analyze"
    /\ results' = [results EXCEPT ![c] = r]
    /\ sessions' = [sessions EXCEPT ![browser[c]].analysis = r,
                                    ![browser[c]].usedBy = @ \cup {c}]
    /\ Await(c, "close", "browser.close")
    /\ UNCHANGED <<request, handler, browser, axeOptions, outcome, rejection>>

\* await browser.close() resolves: the session is closed and the handler
\* returns { content: [{ type: 'text', text }] }.
Closed(c, h, text) ==
    /\ handler[c] = h /\ pc[c] = "close"
    /\ sessions' = [sessions EXCEPT ![browser[c]].open = FALSE,
                                    ![browser[c]].usedBy = @ \cup {c}]
    /\ Return(c, [content |-> TextContent(text)])
    /\ UNCHANGED <<request, handler, browser, axeOptions, results, awaited, rejection>>

BadCaughtRethrows(c, h, prefix, error) ==
    /\ handler[c] = h
    /\ error \in Rejections(pc[c], request[c].arguments.url)
    /\ rejection' = [rejection EXCEPT ![c] = error]
    /\ Throw(c, error)
    /\ UNCHANGED <<request, handler, browser, axeOptions, results, awaited, sessions>>

\* The awaited call rejects with `error`: control passes to the catch block,
\* which returns { content: [{ type: 'text', text: prefix + error.message }],
\* isError: true }.  Nothing closes the session on this path.
Caught(c, h, prefix, error) ==
    /\ handler[c] = h
    /\ error \in Rejections(pc[c], request[c].arguments.url)
    /\ rejection' = [rejection EXCEPT ![c] = error]
    /\ Return(c, [content |-> TextContent(ErrorText(prefix, error)), isError |-> TRUE])
    /\ UNCHANGED <<request, handler, browser, axeOptions, results, awaited, sessions>>

\* ------------------------------------------------------ auditWebpage
auditWebpage(c, params) == Enter(c, "auditWebpage", params)

auditWebpage_launched(c) == Launched(c, "auditWebpage")

auditWebpage_pageCreated(c) == PageCreated(c, "auditWebpage")

auditWebpage_viewportSet(c) == ViewportSet(c, "auditWebpage")

\* new AxePuppeteer(page).options(axeOptions).analyze()
auditWebpage_navigated(c) ==
    Navigated(c, "auditWebpage", AxeOptions(request[c].arguments))

auditWebpage_analyzed(c, r) == Analyzed(c, "auditWebpage", r)

\* text: JSON.stringify(formattedResults, null, 2)
auditWebpage_closed(c, timestamp) ==
    Closed(c, "auditWebpage",
           Stringify(FormattedResults(request[c].arguments, results[c], timestamp)))

auditWebpage_caught(c, error) == Caught(c, "auditWebpage", "Error auditing webpage: ", error)

\* -------------------------------------------------------- getSummary
getSummary(c, params) == Enter(c, "getSummary", params)

getSummary_launched(c) == Launched(c, "getSummary")

getSummary_pageCreated(c) == PageCreated(c, "getSummary")

getSummary_viewportSet(c) == ViewportSet(c, "getSummary")

\* new AxePuppeteer(page).analyze(): no options
getSummary_navigated(c) == Navigated(c, "getSummary", <<>>)

getSummary_analyzed(c, r) == Analyzed(c, "getSummary", r)

\* text: JSON.stringify(summary, null, 2)
getSummary_closed(c, timestamp) ==
    Closed(c, "getSummary", Stringify(Summary(request[c].arguments, results[c], timestamp)))

getSummary_caught(c, error) == Caught(c, "getSummary", "Error getting summary: ", error)

\* ------------------------------------------------------- the router
BadCallToolSwapsHandlers(c, params) ==
    /\ pc[c] = "idle"
    /\ request' = [request EXCEPT ![c] = params]
    /\ \/ /\ params.name = "audit_webpage"
          /\ getSummary(c, params)
       \/ /\ params.name = "get_summary"
          /\ auditWebpage(c, params)
       \/ /\ params.name \notin {"audit_webpage", "get_summary"}
          /\ Throw(c, McpError("MethodNotFound", "Unknown tool: " \o params.name))
          /\ UNCHANGED <<handler, browser, axeOptions, results, awaited, rejection, sessions>>

\* setRequestHandler(CallToolRequestSchema, async (request) => { switch ... })
CallTool(c, params) ==
    /\ pc[c] = "idle"
    /\ request' = [request EXCEPT ![c] = params]
    /\ \/ /\ params.name = "audit_webpage"
          /\ auditWebpage(c, params)
       \/ /\ params.name = "get_summary"
          /\ getSummary(c, params)
       \/ /\ params.name \notin {"audit_webpage", "get_summary"}
          /\ Throw(c, McpError("MethodNotFound", "Unknown tool: " \o params.name))
          /\ UNCHANGED <<handler, browser, axeOptions, results, awaited, rejection, sessions>>

\* --------------------------------------------------- specifications
AllErrors == UNION {Rejections(step, url) :
                       step \in {"launch", "newPage", "setViewport", "goto", "analyze", "close"},
                       url \in {GoodUrl, UnreachableUrl, MalformedUrl}}

\* The steps of call c, with the requests, engine results and clock readings it
\* may meet.
Step(c, requests, auditResults, summaryResults, timestamps) ==
    \/ \E params \in requests : CallTool(c, params)
    \/ auditWebpage_launched(c)
    \/ auditWebpage_pageCreated(c)
    \/ auditWebpage_viewportSet(c)
    \/ auditWebpage_navigated(c)
    \/ /\ pc[c] = "analyze"
       /\ \E r \in auditResults : auditWebpage_analyzed(c, r)
    \/ \E t \in timestamps : auditWebpage_closed(c, t)
    \/ \E e \in AllErrors : auditWebpage_caught(c, e)
    \/ getSummary_launched(c)
    \/ getSummary_pageCreated(c)
    \/ getSummary_viewportSet(c)
    \/ getSummary_navigated(c)
    \/ /\ pc[c] = "analyze"
       /\ \E r \in summaryResults : getSummary_analyzed(c, r)
    \/ \E t \in timestamps : getSummary_closed(c, t)
    \/ \E e \in AllErrors : getSummary_caught(c, e)

\* Calls delivered concurrently: the handlers interleave at their awaits.
Next ==
    \E c \in Calls : Step(c, ParamsOf(ToolNames, Arguments, TRUE), PageResults, PageResults, FirstTimestamp)

Spec == Init /\ [][Next]_vars

\* One call, with audit_webpage over every page the bounds admit.
NextAudit ==
    Step(1, ParamsOf(ToolNames, ReportArguments, TRUE), AuditResults, PageResults, Timestamps)

SpecAudit == Init /\ [][NextAudit]_vars

\* One call, with get_summary over every page the bounds admit.
NextSummary ==
    Step(1,
         ParamsOf({"get_summary"}, SummaryArguments, TRUE)
         \cup ParamsOf(ToolNames \ {"get_summary"}, Arguments, TRUE),
         PageResults, SummaryResults, FirstTimestamp)

SpecSummary == Init /\ [][NextSummary]_vars

\* ------------------------------------------------------- properties
Delivered(c) == pc[c] # "idle"
Done(c) == pc[c] = "done"
IsTool(c) == Delivered(c) /\ request[c].name \in {"audit_webpage", "get_summary"}

\* The call's parameters carry no url.
NoUrl(c) == IF Has(request[c], "arguments") THEN UrlMissing(request[c].arguments) ELSE TRUE

\* The call returned a report or a summary (not an error-flagged result).
Succeeded(c) ==
    /\ Done(c)
    /\ outcome[c].kind = "result"
    /\ ~Has(outcome[c].value, "isError")

\* The object whose JSON text a successful call returned.
Payload(c) == outcome[c].value.content[1].text.json

Audited(c) == Succeeded(c) /\ request[c].name = "audit_webpage"
Summarised(c) == Succeeded(c) /\ request[c].name = "get_summary"

ErrorPrefix(c) ==
    IF request[c].name = "audit_webpage" THEN "Error auditing webpage: "
                                         ELSE "Error getting summary: "

\* Two objects agree on property k: both lack it, or both have it with one value.
SameProperty(a, b, k) == IF Has(a, k) THEN Has(b, k) /\ a[k] = b[k] ELSE ~Has(b, k)

\* C1: a call of audit_webpage or get_summary whose parameters carry no url
\* fails with the McpError InvalidParams fault, and no browser was launched.
C1_MissingUrlIsInvalidParams ==
    \A c \in Calls :
        (IsTool(c) /\ NoUrl(c)) =>
            /\ Done(c)
            /\ outcome[c] = Thrown(McpError("InvalidParams", "URL is required"))
            /\ awaited[c] = <<>>
            /\ browser[c] = 0

\* C2: with a url present, a rejection of launch, newPage, setViewport, goto
\* (the 30-second timeout included), analyze or close never becomes a fault:
\* the call returns isError = true with the single text item
\* '<prefix><cause>', and nothing of a report or summary.
C2_FailureIsErrorResult ==
    \A c \in Calls :
        /\ (IsTool(c) /\ ~NoUrl(c)) => outcome[c].kind # "fault"
        /\ rejection[c] # <<>> =>
            /\ Done(c)
            /\ outcome[c] = Returned([content |-> <<[type |-> "text",
                                                    text |-> [prefix |-> ErrorPrefix(c),
                                                              cause  |-> rejection[c].message]]>>,
                                      isError |-> TRUE])

C2_Witness ==
    \E c \in Calls :
        /\ Done(c)
        /\ request[c].name = "get_summary"
        /\ awaited[c] # <<>>
        /\ awaited[c][Len(awaited[c])] = "page.goto"
        /\ rejection[c] = Error("Navigation timeout of 30000 ms exceeded")
        /\ outcome[c].value.isError

\* C3: no call returns while the browser session it launched is still open.
C3_SessionClosedOnReturn ==
    \A c \in Calls :
        (Done(c) /\ browser[c] # 0) => ~sessions[browser[c]].open

\* C4: the router dispatches on the name alone: audit_webpage runs
\* auditWebpage and returns its result, get_summary runs getSummary and
\* returns its result, any other name fails with MethodNotFound without a
\* handler or a browser.
C4_RouterDispatch ==
    \A c \in Calls :
        Delivered(c) =>
            /\ request[c].name = "audit_webpage" =>
                  /\ handler[c] = "auditWebpage"
                  /\ Succeeded(c) => DOMAIN Payload(c) =
                        {"url", "timestamp", "violations", "passes", "incomplete", "inapplicable"}
                  /\ rejection[c] # <<>> =>
                        outcome[c].value.content[1].text.prefix = "Error auditing webpage: "
            /\ request[c].name = "get_summary" =>
                  /\ handler[c] = "getSummary"
                  /\ Succeeded(c) => DOMAIN Payload(c) =
                        {"url", "timestamp", "totalIssues", "issuesBySeverity", "topIssues",
                         "passedTests", "incompleteTests"}
                  /\ rejection[c] # <<>> =>
                        outcome[c].value.content[1].text.prefix = "Error getting summary: "
            /\ request[c].name \notin {"audit_webpage", "get_summary"} =>
                  /\ handler[c] = "none"
                  /\ Done(c)
                  /\ outcome[c] = Thrown(McpError("MethodNotFound",
                                                  "Unknown tool: " \o request[c].name))
                  /\ awaited[c] = <<>>
                  /\ browser[c] = 0

C4_Witness ==
    \E c, d \in Calls :
        /\ Audited(c)
        /\ Len(Payload(c).violations) = 2
        /\ Done(d)
        /\ request[d].name = "list_pages"
        /\ outcome[d].kind = "fault"

\* C5: a report's violations are the raw violations in the engine's order,
\* each with the raw id, impact, description and help reference and as many
\* nodes as the raw violation; passes, incomplete and inapplicable are the
\* lengths of the raw lists.
C5_ReportMirrorsRaw ==
    \A c \in Calls :
        Audited(c) =>
            LET report == Payload(c)
                raw    == results[c]
            IN  /\ Len(report.violations) = Len(raw.violations)
                /\ \A i \in 1..Len(raw.violations) :
                      /\ \A k \in {"id", "impact", "description", "helpUrl"} :
                            SameProperty(report.violations[i], raw.violations[i], k)
                      /\ Len(report.violations[i].nodes) = Len(raw.violations[i].nodes)
                /\ report.passes = Len(raw.passes)
                /\ report.incomplete = Len(raw.incomplete)
                /\ report.inapplicable = Len(raw.inapplicable)

C5_Witness ==
    \E c \in Calls :
        /\ Audited(c)
        /\ Len(Payload(c).violations) = 2
        /\ Len(Payload(c).violations[1].nodes) = 2
        /\ Len(Payload(c).violations[2].nodes) = 1
        /\ ~Has(Payload(c).violations[1], "impact")
        /\ Has(Payload(c).violations[2], "impact")
        /\ Payload(c).violations[2].impact = "serious"
        /\ Payload(c).passes = 2
        /\ Payload(c).incomplete = 1
        /\ Payload(c).inapplicable = 3

\* C6: without includeHtml (false or absent) no formatted node has html; with
\* includeHtml true every formatted node whose raw node had html carries it
\* unchanged; either way a formatted node carries exactly the raw node's
\* impact, target and failureSummary.
C6_IncludeHtml ==
    \A c \in Calls :
        Audited(c) =>
            LET args   == request[c].arguments
                report == Payload(c)
                raw    == results[c]
            IN  \A i \in 1..Len(raw.violations) :
                    \A n \in 1..Len(raw.violations[i].nodes) :
                        LET node == report.violations[i].nodes[n]
                            from == raw.violations[i].nodes[n]
                        IN  /\ \A k \in {"impact", "target", "failureSummary"} :
                                  SameProperty(node, from, k)
                            /\ DOMAIN node \subseteq {"impact", "target", "failureSummary", "html"}
                            /\ (IF Has(args, "includeHtml") THEN ~args.includeHtml ELSE TRUE)
                                  => ~Has(node, "html")
                            /\ (IF Has(args, "includeHtml") THEN args.includeHtml ELSE FALSE)
                                  => SameProperty(node, from, "html")

C6_Witness ==
    \E c \in Calls :
        /\ Audited(c)
        /\ Has(request[c].arguments, "includeHtml")
        /\ request[c].arguments.includeHtml
        /\ Len(results[c].violations) = 1
        /\ Len(results[c].violations[1].nodes) = 2
        /\ Has(results[c].violations[1].nodes[1], "html")
        /\ ~Has(results[c].violations[1].nodes[2], "html")
        /\ Payload(c).violations[1].nodes[1].html = "<img src=\"a.png\">"

\* The number of violations of `violations` from index i on whose impact is
\* the string `impact`.
RECURSIVE WithImpact(_, _, _)
WithImpact(violations, impact, i) ==
    IF i > Len(violations) THEN 0
    ELSE (IF Has(violations[i], "impact") THEN (IF violations[i].impact = impact THEN 1 ELSE 0)
                                          ELSE 0)
         + WithImpact(violations, impact, i + 1)

Recognized(v) == IF Has(v, "impact") THEN v.impact \in RecognizedImpacts ELSE FALSE

\* C7: totalIssues is the number of raw violations, each bucket the number of
\* raw violations with exactly that impact, and the buckets sum to at most
\* totalIssues, to totalIssues exactly when every raw violation has one of
\* the four impacts.
C7_SeverityBuckets ==
    \A c \in Calls :
        Summarised(c) =>
            LET raw     == results[c].violations
                buckets == Payload(c).issuesBySeverity
                sum     == buckets.critical + buckets.serious + buckets.moderate + buckets.minor
            IN  /\ Payload(c).totalIssues = Len(raw)
                /\ DOMAIN buckets = RecognizedImpacts
                /\ \A k \in RecognizedImpacts : buckets[k] = WithImpact(raw, k, 1)
                /\ sum <= Payload(c).totalIssues
                /\ (sum = Payload(c).totalIssues) <=> (\A i \in 1..Len(raw) : Recognized(raw[i]))

C7_Witness ==
    \E c \in Calls :
        /\ Summarised(c)
        /\ Payload(c).totalIssues = 3
        /\ Payload(c).issuesBySeverity =
              [critical |-> 0, serious |-> 0, moderate |-> 1, minor |-> 0]
        /\ \E i, j \in 1..3 :
              /\ ~Has(results[c].violations[i], "impact")
              /\ Has(results[c].violations[j], "impact")
              /\ results[c].violations[j].impact = OtherImpact

\* C8: topIssues has min(5, totalIssues) elements and, for every raw
\* violations list, those without a recognized impact included, its severity
\* ranks (critical=0, serious=1, moderate=2, minor=3) never decrease.
C8_TopIssuesNonDecreasing ==
    \A c \in Calls :
        Summarised(c) =>
            LET top == Payload(c).topIssues
                n   == Payload(c).totalIssues
            IN  /\ Len(top) = IF n < 5 THEN n ELSE 5
                /\ \A i, j \in 1..Len(top) :
                      (i < j /\ Recognized(top[i]) /\ Recognized(top[j]))
                          => impactOrder[top[i].impact] <= impactOrder[top[j].impact]

\* C9: audit_webpage runs the engine restricted to exactly the caller's tags
\* when tags is present and non-empty and unrestricted otherwise; get_summary
\* runs it unrestricted and returns no markup, whatever tags and includeHtml
\* its parameters carry.
C9_TagRestriction ==
    \A c \in Calls :
        (IsTool(c) /\ \E i \in 1..Len(awaited[c]) : awaited[c][i] = "AxePuppeteer.analyze") =>
            LET args == request[c].arguments
                some == IF Has(args, "tags") THEN args.tags # <<>> ELSE FALSE
            IN  /\ (request[c].name = "audit_webpage" /\ some) =>
                       /\ DOMAIN axeOptions[c] = {"runOnly"}
                       /\ axeOptions[c].runOnly.type = "tag"
                       /\ axeOptions[c].runOnly.values = args.tags
                /\ (request[c].name = "audit_webpage" /\ ~some) => DOMAIN axeOptions[c] = {}
                /\ request[c].name = "get_summary" =>
                       /\ DOMAIN axeOptions[c] = {}
                       /\ Summarised(c) =>
                             \A i \in 1..Len(Payload(c).topIssues) :
                                 DOMAIN Payload(c).topIssues[i]
                                     \subseteq {"id", "impact", "description", "helpUrl"}

C9_Witness ==
    \E c \in Calls :
        /\ Summarised(c)
        /\ Has(request[c].arguments, "tags")
        /\ request[c].arguments.tags = <<"wcag2aa">>
        /\ Has(request[c].arguments, "includeHtml")
        /\ request[c].arguments.includeHtml
        /\ Len(results[c].violations) = 2
        /\ Has(results[c].violations[2].nodes[1], "html")
        /\ Len(Payload(c).topIssues) = 2

Sequence == <<"puppeteer.launch", "browser.newPage", "page.setViewport", "page.goto",
              "AxePuppeteer.analyze", "browser.close">>

\* C10: under any interleaving, a call that passes url validation launches one
\* browser session of its own, no session is used by two calls, no step of a
\* call is repeated, and the response is computed from the call's own
\* parameters and its own session's engine result.
C10_Isolation ==
    /\ \A c \in Calls :
          /\ Len(awaited[c]) <= Len(Sequence)
          /\ awaited[c] = SubSeq(Sequence, 1, Len(awaited[c]))
          /\ (IsTool(c) /\ ~NoUrl(c)) => Len(awaited[c]) >= 1
          /\ Cardinality({s \in 1..Len(sessions) : sessions[s].launchedBy = c})
                = (IF browser[c] = 0 THEN 0 ELSE 1)
          /\ Len(awaited[c]) >= 2 =>
                /\ browser[c] \in 1..Len(sessions)
                /\ sessions[browser[c]].launchedBy = c
          /\ Len(awaited[c]) = Len(Sequence) => results[c] = sessions[browser[c]].analysis
          /\ Succeeded(c) =>
                /\ Payload(c).url = request[c].arguments.url
                /\ request[c].name = "audit_webpage" =>
                      outcome[c].value.content[1].text
                          = Stringify(FormattedResults(request[c].arguments,
                                                       sessions[browser[c]].analysis,
                                                       Payload(c).timestamp))
                /\ request[c].name = "get_summary" =>
                      outcome[c].value.content[1].text
                          = Stringify(Summary(request[c].arguments,
                                              sessions[browser[c]].analysis,
                                              Payload(c).timestamp))
    /\ \A s \in 1..Len(sessions) : sessions[s].usedBy = {sessions[s].launchedBy}

C10_Witness ==
    \E c, d \in Calls :
        /\ c # d
        /\ Audited(c)
        /\ pc[d] = "analyze"
        /\ browser[d] < browser[c]
        /\ sessions[browser[d]].open
        /\ ~sessions[browser[c]].open
        /\ Len(results[c].violations) = 2

====
